---- MODULE Spec2Model ----
(***************************************************************************)
(* State-machine model of the browser front-end script src/script.js:      *)
(* file intake, waveform load, base64 encoding, playback toggle, the       *)
(* simulated analysis with its delay timer, and the result presentation    *)
(* with its count-up and typewriter timers.                                *)
(*                                                                         *)
(* Every event-loop task (a user event handler or a timer / reader         *)
(* callback) is one action: JavaScript runs each task to completion.       *)
(* Texts are sequences of one-character strings.  Numbers are fixed-point  *)
(* integers counting hundredths (97.8 is 9780, 0.5 is 50).                 *)
(***************************************************************************)
EXTENDS Integers, Sequences, FiniteSets, TLC

(* ------------------------------ bounds --------------------------------- *)
\* number of distinct files the user can pick from
NumFiles == 2
\* most files carried by one change event
MaxFiles == 2
\* most user events (file selections, trigger clicks, play clicks) in one behaviour
MaxEvents == 3
\* score (in hundredths) of the bounded responses of Spec
MaxScore == 49
\* largest target (in hundredths) of the count-up runs of SpecScore
MaxTarget == 330
\* leading characters of the report template kept by the bounded responses
MaxPrefixKept == 1
\* longest string revealed by the typewriter runs of SpecType
MaxTypeLen == 3
\* most analyses started in the runs of SpecTimers
MaxRuns == 2

(* --------------------------- text helpers ------------------------------ *)
DigitChars == << "0", "1", "2", "3", "4", "5", "6", "7", "8", "9" >>

Digit(d) == DigitChars[d + 1]

RECURSIVE IntToChars(_)
\* decimal digits of a natural number, as Number.prototype.toString prints them
IntToChars(n) ==
    IF n < 10 THEN << Digit(n) >>
    ELSE IntToChars(n \div 10) \o << Digit(n % 10) >>

\* count.toFixed(1): one fraction digit, rounded half up, always printed
ToFixed1(x) ==
    LET t == (x + 5) \div 10
    IN  IntToChars(t \div 10) \o << "." >> \o << Digit(t % 10) >>

\* String(target), the conversion done by element.innerText = target:
\* no fraction part when it is zero, no trailing zeros otherwise
NumberToString(x) ==
    LET whole == IntToChars(x \div 100)
        frac  == x % 100
    IN  IF frac = 0 THEN whole
        ELSE IF frac % 10 = 0 THEN whole \o << ".", Digit(frac \div 10) >>
        ELSE whole \o << ".", Digit(frac \div 10), Digit(frac % 10) >>

StartsAt(s, i, p) ==
    /\ i + Len(p) - 1 <= Len(s)
    /\ \A k \in 1..Len(p) : s[i + k - 1] = p[k]

\* serialisation of one character of a text node (the innerHTML getter)
EscapeChar(c) ==
    IF c = "&" THEN << "&", "a", "m", "p", ";" >>
    ELSE IF c = "<" THEN << "&", "l", "t", ";" >>
    ELSE IF c = ">" THEN << "&", "g", "t", ";" >>
    ELSE << c >>

\* element.innerHTML read: the markup of the element's text content
\* (s ranges over the one text, which fixes its value before the scan)
InnerHTMLGet(text) ==
    CHOOSE m \in { LET Serialize[i \in 1..(Len(s) + 1)] ==
                           IF i > Len(s) THEN << >>
                           ELSE EscapeChar(s[i]) \o Serialize[i + 1]
                   IN  Serialize[1] : s \in { text } } : TRUE

Letters == { "a", "b", "g", "l", "m", "p", "t" }

\* text content produced by parsing markup from position 1: character
\* references are decoded (with or without the closing semicolon), a "<"
\* followed by a letter opens a tag, which holds no text and runs to the next
\* ">" (or to the end of the input), and any other character is text
ParseHTML(h) ==
    LET n == Len(h)
        SkipTag[i \in 1..(n + 1)] ==
            IF i > n THEN i
            ELSE IF h[i] = ">" THEN i + 1
            ELSE SkipTag[i + 1]
        Parse[i \in 1..(n + 1)] ==
            IF i > n THEN << >>
            ELSE IF h[i] = "&" THEN
                IF StartsAt(h, i, << "&", "a", "m", "p" >>)
                THEN << "&" >> \o Parse[IF StartsAt(h, i + 4, << ";" >>) THEN i + 5 ELSE i + 4]
                ELSE IF StartsAt(h, i, << "&", "l", "t" >>)
                THEN << "<" >> \o Parse[IF StartsAt(h, i + 3, << ";" >>) THEN i + 4 ELSE i + 3]
                ELSE IF StartsAt(h, i, << "&", "g", "t" >>)
                THEN << ">" >> \o Parse[IF StartsAt(h, i + 3, << ";" >>) THEN i + 4 ELSE i + 3]
                ELSE << "&" >> \o Parse[i + 1]
            ELSE IF h[i] = "<" /\ i < n /\ h[i + 1] \in Letters
                 THEN Parse[SkipTag[i + 1]]
            ELSE << h[i] >> \o Parse[i + 1]
    IN  Parse[1]

\* element.innerHTML = markup: the element's text content afterwards
\* (h ranges over the one markup, which fixes its value before the scan)
InnerHTMLSet(html) == CHOOSE c \in { ParseHTML(h) : h \in { html } } : TRUE

Prefix(s, n) == SubSeq(s, 1, n)

(* --------------------------- program data ------------------------------ *)
\* the accumulator step of the count-up, 0.5
CountStep == 50

BusyLabel == "<span class=\"loader\"></span> Analyzing Audio..."
DefaultLabel == "Verify Authenticity"
PauseLabel == "<span class=\"pause-icon\">||</span> Pause"
\* the source's play glyph is written |> here
PlayLabel == "<span class=\"play-icon\">|></span> Play"

ReportPrefix == << ">", " ", "[", "S", "Y", "S", "T", "E", "M", "_", "R", "E", "P", "O", "R", "T", "]", ":", " " >>

MockDetails ==
    << "N", "e", "u", "r", "a", "l", " ", "v", "o", "c", "o", "d", "e", "r", " ", "a",
     "r", "t", "i", "f", "a", "c", "t", "s", " ", "d", "e", "t", "e", "c", "t", "e",
     "d", ".", " ", "S", "p", "e", "c", "t", "r", "a", "l", " ", "f", "l", "u", "x",
     " ", "d", "i", "s", "t", "r", "i", "b", "u", "t", "i", "o", "n", " ", "i", "s",
     " ", "t", "o", "o", " ", "c", "o", "n", "s", "i", "s", "t", "e", "n", "t", " ",
     "f", "o", "r", " ", "h", "u", "m", "a", "n", " ", "v", "o", "c", "a", "l", " ",
     "c", "o", "r", "d", "s", ".", " ", "L", "a", "c", "k", " ", "o", "f", " ", "p",
     "h", "y", "s", "i", "o", "l", "o", "g", "i", "c", "a", "l", " ", "m", "i", "c",
     "r", "o", "-", "j", "i", "t", "t", "e", "r", "s", " ", "i", "n", " ", "t", "h",
     "e", " ", "4", "k", "H", "z", " ", "r", "a", "n", "g", "e", "." >>

\* the response object built by displayResults
mockResponse ==
    [ lang |-> "Telugu", score |-> 9780, isAI |-> TRUE, details |-> MockDetails ]


\* the text displayResults hands to typeWriter: `> [SYSTEM_REPORT]: ${details}`.
\* prefix is the template's fixed part; the bounded specifications keep only
\* its first MaxPrefixKept characters so that concurrent reveals stay enumerable
ReportText(prefix, details) == prefix \o details

(* ------------------------------ state ---------------------------------- *)
VARIABLES
    mock,             \* the response object displayResults presents
    reportPrefix,     \* fixed part of the report template in use
    playbackHidden,   \* playbackContainer carries the class "hidden"
    fileName,         \* text of #file-name
    scrolledTo,       \* surface of the latest scrollIntoView request
    wsUrl,            \* upload whose object URL the renderer was last asked to load (0: none)
    wsReady,          \* the renderer finished decoding wsUrl
    wsPlaying,        \* wavesurfer.isPlaying()
    playBtnHTML,      \* markup of the play control
    readers,          \* uploads whose FileReader has not fired onloadend yet
    audioBase64,      \* window.audioBase64
    analyzeDisabled,  \* analyzeBtn.disabled
    analyzeHTML,      \* label of the analyze trigger
    scanLines,        \* scan-line elements inside #waveform, named by their analysis
    analysisTimers,   \* analyses whose 3000 ms timeout is pending
    resultsHidden,    \* resultsDisplay carries the class "hidden"
    labelText,        \* text of #classification-label
    labelColor,       \* its style.color
    badgeText,        \* text of #language-badge
    scoreText,        \* text of #score-value
    explanationText,  \* text content of #explanation-text
    intervals,        \* running count-up intervals: [id, count]
    typeTimers,       \* pending typewriter timeouts: [id, i]
    selected,         \* history: the files handed to handleAudioUpload, in order
    changes,          \* history: number of change events of the file input
    analyses,         \* history: number of analyses started (names timers and elements)
    toggles,          \* history: number of play/pause clicks
    orders,           \* history: completion orders seen for an upload's encode and decode
    atRestart,        \* history: what the latest typeWriter(element, text) call found pending
    uploadMidAnalysis,\* history: a file was taken in while an analysis timer was pending
    countUpOverlap    \* history: an animateScore call found an earlier interval still ticking

vars == << mock, reportPrefix, playbackHidden, fileName, scrolledTo, wsUrl, wsReady,
           wsPlaying, playBtnHTML, readers, audioBase64, analyzeDisabled, analyzeHTML,
           scanLines, analysisTimers, resultsHidden, labelText, labelColor, badgeText,
           scoreText, explanationText, intervals, typeTimers, selected, changes,
           analyses, toggles, orders, atRestart, uploadMidAnalysis,
           countUpOverlap >>

uploadVars == << playbackHidden, fileName, wsUrl, wsReady, readers, audioBase64, selected, orders,
                 uploadMidAnalysis >>
playVars == << wsPlaying, playBtnHTML, toggles >>
triggerVars == << analyzeDisabled, analyzeHTML, scanLines, analysisTimers, analyses >>
resultVars == << resultsHidden, labelText, labelColor, badgeText, scoreText,
                 explanationText, intervals, typeTimers, atRestart, countUpOverlap >>
dataVars == << mock, reportPrefix >>

\* content the page markup gives an element before the script writes to it
PageText == "page"
\* value of window.audioBase64 before any encode completed
Undefined == << "undefined" >>

(* ------------------------------ inputs --------------------------------- *)
File(i) == [ name |-> "f" \o ToString(i) \o ".wav", b64 |-> << "Q", Digit(i) >> ]
Files == { File(i) : i \in 1..NumFiles }

RECURSIVE SeqsUpTo(_, _)
\* all sequences over S of length at most n
SeqsUpTo(S, n) ==
    IF n = 0 THEN { << >> }
    ELSE LET shorter == SeqsUpTo(S, n - 1)
         IN  shorter \cup { Append(s, x) : s \in { q \in shorter : Len(q) = n - 1 }, x \in S }

\* the file lists a change event can carry: up to MaxFiles distinct files
FileLists ==
    { l \in SeqsUpTo(Files, MaxFiles) : \A i, j \in 1..Len(l) : l[i] = l[j] => i = j }

\* the responses of the bounded specification: either class, a score that
\* takes two ticks to reach, a one-character explanation
BoundedResponses ==
    { [ lang |-> "Telugu", score |-> MaxScore, isAI |-> b, details |-> << "&" >> ] :
        b \in BOOLEAN }

(* ---------------------------- construction ----------------------------- *)
\* state of the page once the DOMContentLoaded listener has run
PageLoaded ==
    /\ playbackHidden = TRUE
    /\ fileName = PageText
    /\ scrolledTo = "none"
    /\ wsUrl = 0
    /\ wsReady = FALSE
    /\ wsPlaying = FALSE
    /\ playBtnHTML = PageText
    /\ readers = {}
    /\ audioBase64 = Undefined
    /\ analyzeDisabled = FALSE
    /\ analyzeHTML = PageText
    /\ scanLines = {}
    /\ analysisTimers = {}
    /\ resultsHidden = TRUE
    /\ labelText = PageText
    /\ labelColor = PageText
    /\ badgeText = PageText
    /\ scoreText = << >>
    /\ intervals = {}
    /\ typeTimers = {}
    /\ selected = << >>
    /\ changes = 0
    /\ analyses = 0
    /\ toggles = 0
    /\ orders = {}
    /\ atRestart = "idle"
    /\ uploadMidAnalysis = FALSE
    /\ countUpOverlap = FALSE

Init ==
    /\ mock \in BoundedResponses
    /\ reportPrefix = Prefix(ReportPrefix, MaxPrefixKept)
    /\ explanationText = << >>
    /\ PageLoaded


(* ----------------------------- file intake ----------------------------- *)
NoFile == [ name |-> "", b64 |-> << >> ]

\* variant: the last file of the list is taken
LastFile(files) == IF Len(files) > 0 THEN files[Len(files)] ELSE NoFile

\* e.target.files[0]; undefined for an empty list
FirstFile(files) == IF Len(files) > 0 THEN files[1] ELSE NoFile

\* FileReader.readAsDataURL: "data:<type>;base64,<payload>"
DataURL(file) == << "d", "a", "t", "a", ":", ";", "b", "6", "4", "," >> \o file.b64

RECURSIVE SplitFrom(_, _, _, _)
\* String.prototype.split(sep), scanning from position i with the part cur open
SplitFrom(s, sep, i, cur) ==
    IF i > Len(s) THEN << cur >>
    ELSE IF s[i] = sep THEN << cur >> \o SplitFrom(s, sep, i + 1, << >>)
    ELSE SplitFrom(s, sep, i + 1, Append(cur, s[i]))

Split(s, sep) == SplitFrom(s, sep, 1, << >>)

\* reader.result.split(',')[1]
EncodedPayload(file) ==
    LET parts == Split(DataURL(file), ",")
    IN  IF Len(parts) >= 2 THEN parts[2] ELSE Undefined

\* variant: only the encode of the latest upload is stored
SlotAfterEncodeLatestOnly(k, slot) ==
    IF k = Len(selected) THEN EncodedPayload(selected[k]) ELSE slot

\* the value the onloadend callback of upload k leaves in window.audioBase64
SlotAfterEncode(k, slot) == EncodedPayload(selected[k])

\* variant: the name is written only while the page still shows its own text
NameAfterUploadFirstOnly(file, old) == IF old = PageText THEN file.name ELSE old

\* the text handleAudioUpload leaves in #file-name
NameAfterUpload(file, old) == file.name

\* variant: the read is never started
ReadersAfterUploadNone(pending, k) == pending

\* the pending reads once handleAudioUpload has called reader.readAsDataURL
ReadersAfterUpload(pending, k) == pending \cup { k }

HandleAudioUpload(file) ==
    LET k == Len(selected) + 1
    IN  /\ playbackHidden' = FALSE
        /\ fileName' = NameAfterUpload(file, fileName)
        /\ wsUrl' = k
        /\ wsReady' = FALSE
        /\ readers' = ReadersAfterUpload(readers, k)
        /\ scrolledTo' = "playback"
        /\ selected' = Append(selected, file)
        /\ uploadMidAnalysis' = (uploadMidAnalysis \/ analysisTimers # {})
        /\ UNCHANGED << audioBase64, orders >>

\* audioInput.onchange
AudioInputChange(files) ==
    /\ changes + analyses + toggles < MaxEvents
    /\ changes' = changes + 1
    /\ IF FirstFile(files) # NoFile
       THEN HandleAudioUpload(FirstFile(files))
       ELSE UNCHANGED << uploadVars, scrolledTo >>
    /\ UNCHANGED << playVars, triggerVars, resultVars, dataVars >>

\* reader.onloadend of upload k
EncodeComplete(k) ==
    /\ k \in readers
    /\ readers' = readers \ { k }
    /\ audioBase64' = SlotAfterEncode(k, audioBase64)
    /\ orders' = IF wsUrl = k /\ wsReady THEN orders \cup { "decode-first" } ELSE orders
    /\ UNCHANGED << playbackHidden, fileName, wsUrl, wsReady, selected, scrolledTo, changes,
                    uploadMidAnalysis >>
    /\ UNCHANGED << playVars, triggerVars, resultVars, dataVars >>

\* the renderer finishes decoding the resource it was last asked to load
WaveformReady ==
    /\ wsUrl # 0
    /\ ~wsReady
    /\ wsReady' = TRUE
    /\ orders' = IF wsUrl \notin readers THEN orders \cup { "encode-first" } ELSE orders
    /\ UNCHANGED << playbackHidden, fileName, wsUrl, readers, audioBase64, selected,
                    scrolledTo, changes, uploadMidAnalysis >>
    /\ UNCHANGED << playVars, triggerVars, resultVars, dataVars >>

(* ------------------------------ playback ------------------------------- *)
\* what isPlaying() can answer right after playPause(): the renderer flips its
\* state when it holds a decoded resource; with nothing loaded, or a load still
\* decoding, the orchestrator relies on behaviour the renderer leaves open
PlayingAfterToggle(ready, playing) == IF ready THEN { ~playing } ELSE BOOLEAN

\* variant: the label names the state the renderer has left
LabelAfterToggleInverted(playing) == IF playing THEN PlayLabel ELSE PauseLabel

\* the label the play trigger gets from the state read back after the toggle
LabelAfterToggle(playing) == IF playing THEN PauseLabel ELSE PlayLabel

\* playBtn.onclick
TogglePlayback ==
    /\ changes + analyses + toggles < MaxEvents
    /\ toggles' = toggles + 1
    /\ wsPlaying' \in PlayingAfterToggle(wsReady, wsPlaying)
    /\ playBtnHTML' = LabelAfterToggle(wsPlaying')
    /\ UNCHANGED << uploadVars, scrolledTo, changes, triggerVars, resultVars, dataVars >>

(* ------------------------------ analysis ------------------------------- *)
\* a disabled control dispatches no click event
Clickable(disabled) == ~disabled

\* variant: the handler forgets to disable the trigger
DisabledAfterClickKept(disabled) == disabled

\* analyzeBtn.disabled as analyzeBtn.onclick leaves it
DisabledAfterClick(disabled) == TRUE

\* analyzeBtn.onclick
RunAnalysis ==
    /\ Clickable(analyzeDisabled)
    /\ changes + analyses + toggles < MaxEvents
    /\ analyses' = analyses + 1
    /\ analyzeDisabled' = DisabledAfterClick(analyzeDisabled)
    /\ analyzeHTML' = BusyLabel
    /\ scanLines' = scanLines \cup { analyses + 1 }
    /\ analysisTimers' = analysisTimers \cup { analyses + 1 }
    /\ UNCHANGED << uploadVars, scrolledTo, changes, playVars, resultVars, dataVars >>

ClassLabel(isAI) == IF isAI THEN "AI-GENERATED VOICE" ELSE "HUMAN VOICE DETECTED"

\* variant: the colour does not follow the flag
ClassColorFixed(isAI) == "#fb7185"

ClassColor(isAI) == IF isAI THEN "#fb7185" ELSE "#34d399"

\* variant: the first call does not clear the element
TypeWriteNoClear(content, text, i) ==
    IF i < Len(text)
    THEN InnerHTMLSet(InnerHTMLGet(content) \o << text[i + 1] >>)
    ELSE content

\* text content of the element after typeWriter(element, text, i) has run
TypeWrite(content, text, i) ==
    LET start == IF i = 0 THEN InnerHTMLSet(<< >>) ELSE content
    IN  IF i < Len(text)
        THEN InnerHTMLSet(InnerHTMLGet(start) \o << text[i + 1] >>)
        ELSE start

\* variant: the callback past the last character schedules itself again
TypeNextAgain(id, text, i) == { [ id |-> id, i |-> IF i < Len(text) THEN i + 1 ELSE i ] }

\* the timeouts typeWriter(element, text, i) of chain id leaves pending
TypeNext(id, text, i) == IF i < Len(text) THEN { [ id |-> id, i |-> i + 1 ] } ELSE {}

\* variant: a new reveal cancels the timeouts of the earlier ones
TimersKeptOnRestartNone(timers) == {}

\* the earlier typewriter timeouts still pending once typeWriter(element, text)
\* has been called again: the call clears no timeout
TimersKeptOnRestart(timers) == timers

\* what a call typeWriter(element, text) finds: no pending timeout ("idle"),
\* only timeouts that will reveal nothing more ("ending"), or a chain that
\* still has characters to reveal ("revealing")
RestartFinds(timers, text) ==
    IF timers = {} THEN "idle"
    ELSE IF \E t \in timers : t.i < Len(text) THEN "revealing"
    ELSE "ending"

\* variant: the tick never snaps to the target
ScoreShownNoSnap(count, target) == ToFixed1(count)

\* text of the score element after a tick that raised the accumulator to count
ScoreShown(count, target) ==
    IF count >= target THEN NumberToString(target) ELSE ToFixed1(count)

\* animateScore(scoreVal, target): starts interval id
AnimateScore(id) ==
    /\ intervals' = intervals \cup { [ id |-> id, count |-> 0 ] }
    /\ countUpOverlap' = (countUpOverlap \/ intervals # {})

\* variant: the class is toggled, so a second result hides the surface
ResultsHiddenAfterDisplayToggled(hidden) == ~hidden

\* whether #results-display carries 'hidden' once displayResults has called
\* classList.remove('hidden')
ResultsHiddenAfterDisplay(hidden) == FALSE

\* displayResults, called by the timeout of analysis id
DisplayResults(id) ==
    LET text == ReportText(reportPrefix, mock.details)
    IN  /\ resultsHidden' = ResultsHiddenAfterDisplay(resultsHidden)
        /\ labelText' = ClassLabel(mock.isAI)
        /\ labelColor' = ClassColor(mock.isAI)
        /\ badgeText' = mock.lang \o " Detected"
        /\ AnimateScore(id)
        /\ scoreText' = scoreText
        /\ explanationText' = TypeWrite(explanationText, text, 0)
        /\ typeTimers' = TimersKeptOnRestart(typeTimers) \cup TypeNext(id, text, 0)
        /\ atRestart' = RestartFinds(typeTimers, text)
        /\ scrolledTo' = "results"

\* variant: the completion callback leaves its scan-line in place
ScanLinesAfterTimeoutKept(lines, id) == lines

\* the scan-lines inside #waveform once the callback of analysis id has run
\* scanLine.remove() on the element its own click created
ScanLinesAfterTimeout(lines, id) == lines \ { id }

\* variant: the completion callback leaves the trigger disabled
DisabledAfterTimeoutKept(disabled) == disabled

\* the trigger's disabled flag once the completion callback has run
DisabledAfterTimeout(disabled) == FALSE

\* the 3000 ms timeout of analysis id
AnalysisTimeout(id) ==
    /\ id \in analysisTimers
    /\ analysisTimers' = analysisTimers \ { id }
    /\ scanLines' = ScanLinesAfterTimeout(scanLines, id)
    /\ DisplayResults(id)
    /\ analyzeDisabled' = DisabledAfterTimeout(analyzeDisabled)
    /\ analyzeHTML' = DefaultLabel
    /\ UNCHANGED << uploadVars, changes, playVars, analyses, dataVars >>

\* one tick of the 10 ms interval t of animateScore
ScoreTick(t) ==
    LET count == t.count + CountStep
    IN  /\ t \in intervals
        /\ scoreText' = ScoreShown(count, mock.score)
        /\ intervals' = IF count >= mock.score
                        THEN intervals \ { t }
                        ELSE (intervals \ { t }) \cup { [ t EXCEPT !.count = count ] }
        /\ UNCHANGED << uploadVars, scrolledTo, changes, playVars, triggerVars, dataVars,
                        resultsHidden, labelText, labelColor, badgeText, explanationText,
                        typeTimers, atRestart, countUpOverlap >>

\* the 20 ms timeout t of typeWriter
TypeTick(t) ==
    LET text == ReportText(reportPrefix, mock.details)
    IN  /\ t \in typeTimers
        /\ explanationText' = TypeWrite(explanationText, text, t.i)
        /\ typeTimers' = (typeTimers \ { t }) \cup TypeNext(t.id, text, t.i)
        /\ UNCHANGED << uploadVars, scrolledTo, changes, playVars, triggerVars, dataVars,
                        resultsHidden, labelText, labelColor, badgeText, scoreText,
                        intervals, atRestart, countUpOverlap >>

(* --------------------------- specifications ---------------------------- *)
Change == \E files \in FileLists : AudioInputChange(files)
Encoded == \E k \in readers : EncodeComplete(k)
Analyzed == \E id \in analysisTimers : AnalysisTimeout(id)
Counted == \E t \in intervals : ScoreTick(t)
Typed == \E t \in typeTimers : TypeTick(t)

Next ==
    \/ Change
    \/ Encoded
    \/ WaveformReady
    \/ TogglePlayback
    \/ RunAnalysis
    \/ Analyzed
    \/ Counted
    \/ Typed

\* the whole page: any user action and any pending callback, in any order
Spec == Init /\ [][Next]_vars


(* One run of animateScore on the freshly loaded page, for every target.   *)
Targets == (1..MaxTarget) \cup { mockResponse.score }

InitScore ==
    /\ mock \in { [ mockResponse EXCEPT !.score = s ] : s \in Targets }
    /\ reportPrefix = ReportPrefix
    /\ explanationText = << >>
    /\ PageLoaded

\* the call animateScore(scoreVal, mock.score) on its own; the run is named 1
AnimateScoreCall ==
    /\ analyses = 0
    /\ analyses' = 1
    /\ AnimateScore(1)
    /\ UNCHANGED << uploadVars, scrolledTo, changes, playVars, dataVars, analyzeDisabled,
                    analyzeHTML, scanLines, analysisTimers, resultsHidden, labelText,
                    labelColor, badgeText, scoreText, explanationText, typeTimers, atRestart >>

NextScore ==
    \/ AnimateScoreCall
    \/ Counted

SpecScore == InitScore /\ [][NextScore]_vars

(* One run of typeWriter, for every string over TypeChars up to MaxTypeLen *)
(* and for an element that is empty or already holds text.                 *)
TypeChars == { "a", "<", "&", ";", "t" }

InitType ==
    /\ mock \in { [ mockResponse EXCEPT !.details = d ] : d \in SeqsUpTo(TypeChars, MaxTypeLen) }
    /\ reportPrefix = << >>
    /\ explanationText \in { << >>, << "<", "a" >> }
    /\ PageLoaded

\* the call typeWriter(terminalText, text) on its own; the chain is named 1
TypeWriterCall ==
    LET text == ReportText(reportPrefix, mock.details)
    IN  /\ analyses = 0
        /\ analyses' = 1
        /\ explanationText' = TypeWrite(explanationText, text, 0)
        /\ typeTimers' = TimersKeptOnRestart(typeTimers) \cup TypeNext(1, text, 0)
        /\ atRestart' = RestartFinds(typeTimers, text)
        /\ UNCHANGED << uploadVars, scrolledTo, changes, playVars, dataVars, analyzeDisabled,
                        analyzeHTML, scanLines, analysisTimers, resultsHidden, labelText,
                        labelColor, badgeText, scoreText, intervals, countUpOverlap >>

NextType ==
    \/ TypeWriterCall
    \/ Typed

SpecType == InitType /\ [][NextType]_vars

(* The scenario: the fixed mock response, one upload, then one analysis,   *)
(* no further user action.  The event loop keeps running due timer         *)
(* callbacks, hence weak fairness on their firing.                         *)
InitScenario ==
    /\ mock = mockResponse
    /\ reportPrefix = ReportPrefix
    /\ explanationText = << >>
    /\ PageLoaded

UploadOnce ==
    /\ changes = 0
    /\ AudioInputChange(<< File(1) >>)

AnalyzeOnce ==
    /\ Len(selected) = 1
    /\ analyses = 0
    /\ RunAnalysis

NextScenario ==
    \/ UploadOnce
    \/ AnalyzeOnce
    \/ Encoded
    \/ WaveformReady
    \/ Analyzed
    \/ Counted
    \/ Typed

\* a timer callback that is due
TimerFires == Analyzed \/ Counted \/ Typed

SpecScenario ==
    /\ InitScenario
    /\ [][NextScenario]_vars
    /\ WF_vars(TimerFires)


(* The timers on their own: the trigger is clicked up to MaxRuns times,    *)
(* whenever it is enabled, for targets that take one and three ticks, and  *)
(* the event loop keeps running the callbacks that are due.                *)
TimerTargets == { MaxScore, 3 * MaxScore }

InitTimers ==
    /\ mock \in { [ r EXCEPT !.score = s ] : r \in BoundedResponses, s \in TimerTargets }
    /\ reportPrefix = Prefix(ReportPrefix, MaxPrefixKept)
    /\ explanationText = << >>
    /\ PageLoaded

RunAgain ==
    /\ analyses < MaxRuns
    /\ RunAnalysis

NextTimers ==
    \/ RunAgain
    \/ Analyzed
    \/ Counted
    \/ Typed

SpecTimers ==
    /\ InitTimers
    /\ [][NextTimers]_vars
    /\ WF_vars(TimerFires)

(* ------------------------------- claims -------------------------------- *)
RECURSIVE DigitsValue(_, _, _)
\* value of the decimal digits of s from position i on, continuing from acc
DigitsValue(s, i, acc) ==
    IF i > Len(s) \/ s[i] = "." THEN acc
    ELSE DigitsValue(s, i + 1, 10 * acc + (CHOOSE d \in 0..9 : Digit(d) = s[i]))

PointAt(s) == IF \E i \in 1..Len(s) : s[i] = "." THEN CHOOSE i \in 1..Len(s) : s[i] = "." ELSE Len(s) + 1

\* the number a displayed decimal text denotes, in hundredths
Shown(s) ==
    LET p     == PointAt(s)
        whole == DigitsValue(s, 1, 0)
        d1    == IF p + 1 <= Len(s) THEN DigitsValue(<< s[p + 1] >>, 1, 0) ELSE 0
        d2    == IF p + 2 <= Len(s) THEN DigitsValue(<< s[p + 2] >>, 1, 0) ELSE 0
    IN  100 * whole + 10 * d1 + d2

\* C1: the analyze trigger is disabled exactly while an analysis timeout is
\* pending, and at most one analysis timeout is ever pending (so no analysis
\* starts before the previous one completed).
C1_TriggerDisabledWhilePending ==
    /\ analyzeDisabled <=> analysisTimers # {}
    /\ Cardinality(analysisTimers) <= 1

\* a second analysis is pending after the first one completed
C1_Witness == analyses = 2 /\ analysisTimers = { 2 } /\ analyzeDisabled /\ ~resultsHidden

\* C2 (state part): what a count-up run towards S > 0 displays is never
\* greater than S, and once the run has stopped it is S exactly.
C2_Bounded ==
    /\ scoreText # << >> => Shown(scoreText) <= mock.score
    /\ (analyses = 1 /\ intervals = {}) =>
           /\ scoreText = NumberToString(mock.score)
           /\ Shown(scoreText) = mock.score

\* C2: for any target S > 0 the values a run of animateScore displays never
\* decrease from one tick to the next, never exceed S (also on the tick on
\* which the accumulator reaches or passes S), and end at S exactly.
C2_CountUp ==
    /\ []C2_Bounded
    /\ [][scoreText # << >> => Shown(scoreText') >= Shown(scoreText)]_vars

\* the run towards 97.8 has stopped, one tick after displaying 97.5
C2_Witness ==
    /\ mock.score = mockResponse.score
    /\ analyses = 1
    /\ intervals = {}
    /\ scoreText = << "9", "7", ".", "8" >>

\* C3: for a string of length L, once k calls of typeWriter have run (the
\* initial call typeWriter(element, text, 0) being the first, each timeout
\* one more) the element shows exactly the first k characters for k < L,
\* and the whole string from the L-th call on.
C3_Typewriter ==
    LET text == ReportText(reportPrefix, mock.details)
    IN  analyses = 1 =>
            /\ Cardinality(typeTimers) <= 1
            /\ \A t \in typeTimers : t.i <= Len(text) /\ explanationText = Prefix(text, t.i)
            /\ typeTimers = {} => explanationText = text

\* a reveal of "<a&" over an element that held text has finished
C3_Witness ==
    /\ analyses = 1
    /\ typeTimers = {}
    /\ mock.details = << "<", "a", "&" >>
    /\ explanationText = << "<", "a", "&" >>

\* C4: once a file has been selected, the one displayed audio name is the
\* name of the most recently selected file, whatever uploads came before
\* and whatever callbacks are still pending or have fired since.
C4_CurrentName ==
    /\ Len(selected) > 0 => fileName = selected[Len(selected)].name
    /\ Len(selected) = 0 => fileName = PageText

\* two different files were uploaded, both encodes and an analysis are over
C4_Witness ==
    /\ Len(selected) = 2
    /\ selected[1].name # selected[2].name
    /\ readers = {}
    /\ wsReady
    /\ ~resultsHidden
    /\ fileName = selected[2].name

\* C5: a result is displayed only after an upload has occurred.
C5_ResultOnlyAfterUpload == ~resultsHidden => Len(selected) > 0


\* the state the scenario ends in
ScenarioDone ==
    /\ ~analyzeDisabled
    /\ analyzeHTML = DefaultLabel
    /\ ~resultsHidden
    /\ labelText = "AI-GENERATED VOICE"
    /\ labelColor = "#fb7185"
    /\ scoreText = << "9", "7", ".", "8" >>
    /\ explanationText = ReportPrefix \o MockDetails

\* C6: in the scenario (one upload, then one analysis trigger, callbacks run
\* fairly) the trigger click leaves the trigger disabled with the busy label
\* and no result shown, it stays so while the delay is pending, and the page
\* eventually reaches, and then keeps, the state with the trigger enabled
\* under its default label, the results visible, the label and colour of the
\* synthetic class, the score 97.8 and the whole mock report.
C6_Scenario ==
    /\ [][analyses' # analyses =>
            analyzeDisabled' /\ analyzeHTML' = BusyLabel /\ resultsHidden']_vars
    /\ [](analysisTimers # {} => analyzeDisabled /\ analyzeHTML = BusyLabel)
    /\ (analyses = 1) ~> []ScenarioDone

\* the scenario has run to its end after the upload was encoded and decoded
C6_Witness == ScenarioDone /\ Len(selected) = 1 /\ readers = {} /\ wsReady /\ typeTimers = {}

\* C7: whenever a result is shown, the label text and colour are the pair of
\* the response's flag: ("AI-GENERATED VOICE", "#fb7185") for true and
\* ("HUMAN VOICE DETECTED", "#34d399") for false, never a mixed or third pair.
C7_ClassificationPair ==
    ~resultsHidden =>
        /\ mock.isAI => labelText = "AI-GENERATED VOICE" /\ labelColor = "#fb7185"
        /\ ~mock.isAI => labelText = "HUMAN VOICE DETECTED" /\ labelColor = "#34d399"

\* a human result has been presented twice
C7_Witness ==
    /\ ~mock.isAI
    /\ analyses = 2
    /\ analysisTimers = {}
    /\ labelText = "HUMAN VOICE DETECTED"
    /\ labelColor = "#34d399"

\* C8: a step that runs handleAudioUpload leaves, by itself, the playback
\* surface revealed, the file's name displayed and the scroll to the playback
\* surface requested, while the decode and the encode of that upload are
\* still outstanding (they complete in later steps, in either order).
C8_UploadSynchronousPart ==
    [][Len(selected') = Len(selected) + 1 =>
          /\ ~playbackHidden'
          /\ fileName' = selected'[Len(selected')].name
          /\ scrolledTo' = "playback"
          /\ wsUrl' = Len(selected') /\ ~wsReady'
          /\ Len(selected') \in readers'
          /\ audioBase64' = audioBase64]_vars

\* one upload was encoded before it was decoded, another decoded before encoded
C8_Witness == orders = { "encode-first", "decode-first" }

\* C9: a change event carrying files uploads exactly its first file, and a
\* change event carrying no file uploads nothing and leaves the displayed
\* name, the playback surface, the renderer's resource and the encoded-audio
\* slot as they were.
C9_FirstFileOnly ==
    [][changes' # changes => \A files \in FileLists :
          AudioInputChange(files) =>
              IF Len(files) = 0
              THEN UNCHANGED << selected, fileName, playbackHidden, wsUrl, wsReady,
                                readers, audioBase64, scrolledTo >>
              ELSE /\ selected' = Append(selected, files[1])
                   /\ fileName' = files[1].name]_vars

\* an event without files followed an upload: the upload's name and resource stay
C9_Witness ==
    /\ changes = 2
    /\ Len(selected) = 1
    /\ wsUrl = 1
    /\ ~playbackHidden
    /\ fileName = selected[1].name

\* C10: every onloadend callback stores its own file's payload in the slot,
\* whether or not a later upload has happened; the slot therefore always
\* holds the payload of the encode that completed last.
C10_UnconditionalOverwrite ==
    [][\A k \in readers :
          readers' = readers \ { k } => audioBase64' = selected[k].b64]_vars

\* both encodes are over, the name and the resource are B's, the slot is A's
C10_Witness ==
    /\ Len(selected) = 2
    /\ readers = {}
    /\ selected[1].b64 # selected[2].b64
    /\ fileName = selected[2].name
    /\ wsUrl = 2
    /\ audioBase64 = selected[1].b64


\* the original reading of C11: whenever the latest typeWriter call found a
\* timeout of an earlier chain pending, the text at quiescence differs from
\* the explanation string
C11_AnyPendingCorrupts ==
    (typeTimers = {} /\ atRestart # "idle") =>
        explanationText # ReportText(reportPrefix, mock.details)

\* C11 (amended): the trigger is enabled again as soon as a result starts
\* being presented, so typeWriter can be called again while an earlier chain
\* still has characters to reveal; the call clears the element once and
\* cancels nothing, every chain keeps appending, and the text at quiescence
\* is longer than, hence different from, the explanation string.
C11_LiveRestartCorrupts ==
    LET text == ReportText(reportPrefix, mock.details)
    IN  /\ analysisTimers # {} => analyzeDisabled
        /\ (typeTimers = {} /\ atRestart = "revealing") =>
               /\ explanationText # text
               /\ Len(explanationText) > Len(text)

\* two reveals of ">&" ran into each other and left ">&&"
C11_Witness ==
    /\ typeTimers = {}
    /\ atRestart = "revealing"
    /\ analyses = 2
    /\ ~analyzeDisabled
    /\ explanationText = << ">", "&", "&" >>


\* C12: the scan overlay tracks the analysing state. A click on the trigger
\* inserts exactly one scan-line, the completion callback removes the
\* scan-line of its own click in the step that presents the result and
\* enables the trigger again, and in every state there is at most one
\* scan-line, present exactly when the trigger is disabled.
C12_ScanOverlay ==
    /\ [](/\ Cardinality(scanLines) <= 1
          /\ scanLines # {} <=> analyzeDisabled
          /\ scanLines = analysisTimers)
    /\ [][/\ analyses' # analyses =>
                /\ scanLines = {}
                /\ scanLines' = { analyses' }
          /\ analysisTimers' # analysisTimers /\ analyses' = analyses =>
                \E id \in scanLines :
                    /\ scanLines' = scanLines \ { id }
                    /\ analysisTimers' = analysisTimers \ { id }
                    /\ ~resultsHidden'
                    /\ ~analyzeDisabled'
          /\ scanLines' # scanLines =>
                analyses' # analyses \/ analysisTimers' # analysisTimers]_vars

\* the second analysis is pending with its own scan-line, the first one's gone
C12_Witness ==
    /\ analyses = 2
    /\ scanLines = { 2 }
    /\ analyzeDisabled
    /\ ~resultsHidden


\* the original reading of C13: after every toggle the label names the state
\* read back from the renderer, and every toggle flips the playing state
C13_EveryToggleFlips ==
    [][toggles' # toggles =>
          /\ playBtnHTML' = PauseLabel <=> wsPlaying'
          /\ playBtnHTML' = PlayLabel <=> ~wsPlaying'
          /\ wsPlaying' = ~wsPlaying]_vars

\* C13 (amended): right after every togglePlayback the label reads "Pause"
\* exactly when the renderer reports playing after the toggle and "Play"
\* otherwise; the toggle flips the playing state exactly once whenever the
\* renderer holds a decoded resource.
C13_LabelFollowsRenderer ==
    [][toggles' # toggles =>
          /\ toggles' = toggles + 1
          /\ playBtnHTML' = PauseLabel <=> wsPlaying'
          /\ playBtnHTML' = PlayLabel <=> ~wsPlaying'
          /\ wsReady => wsPlaying' = ~wsPlaying]_vars

\* a decoded upload was played and paused again
C13_Witness ==
    /\ toggles = 2
    /\ wsReady
    /\ ~wsPlaying
    /\ playBtnHTML = PlayLabel


\* C14: visibility is monotone. Once revealed, the playback surface and the
\* results surface are never hidden again, and a new handleAudioUpload leaves
\* the results presented earlier (label, colour, badge, score, explanation)
\* visible and unchanged.
C14_VisibilityMonotone ==
    [][/\ ~playbackHidden => ~playbackHidden'
       /\ ~resultsHidden => ~resultsHidden'
       /\ changes' # changes =>
             /\ (selected' # selected => ~playbackHidden')
             /\ UNCHANGED << resultsHidden, labelText, labelColor, badgeText,
                             scoreText, explanationText >>]_vars

\* a file was uploaded after two results had been presented
C14_Witness ==
    /\ ~resultsHidden
    /\ ~playbackHidden
    /\ analyses = 2
    /\ analysisTimers = {}
    /\ labelText # PageText
    /\ scrolledTo = "playback"


\* C15: an upload during a pending analysis does not interfere with it. The
\* upload leaves the trigger's disabled flag and label, the scan overlay and
\* the pending timer unchanged; the analysis completes once, presenting the
\* result and enabling the trigger again, and its timer never comes back.
\* Conversely the click on the trigger and the completion leave the displayed
\* file name and the encoded-audio slot unchanged.
C15_UploadAndAnalysisIndependent ==
    [][/\ changes' # changes =>
             UNCHANGED << analyzeDisabled, analyzeHTML, scanLines, analysisTimers >>
       /\ \A id \in 1..analyses :
             /\ id \in analysisTimers /\ id \notin analysisTimers' =>
                   /\ ~resultsHidden'
                   /\ labelText' = ClassLabel(mock.isAI)
                   /\ ~analyzeDisabled'
                   /\ analyzeHTML' = DefaultLabel
             /\ id \notin analysisTimers => id \notin analysisTimers'
       /\ (analyses' # analyses \/ analysisTimers' # analysisTimers) =>
             UNCHANGED << fileName, audioBase64 >>]_vars

\* a file was taken in while the analysis was pending, its read has filled the
\* slot, and the analysis has completed since
C15_Witness ==
    /\ uploadMidAnalysis
    /\ analyses = 1
    /\ analysisTimers = {}
    /\ ~analyzeDisabled
    /\ ~resultsHidden
    /\ Len(selected) = 1
    /\ fileName = selected[1].name
    /\ audioBase64 = selected[1].b64


\* L, the length of the string the typewriter reveals
L == Len(ReportText(reportPrefix, mock.details))

\* no timer callback is pending
Quiescent == analysisTimers = {} /\ intervals = {} /\ typeTimers = {}

\* C16: every timer chain terminates. With the due callbacks firing fairly the
\* page reaches a state with no pending timer. Each analysis timer fires once
\* and never comes back; each count-up clears its own interval on the first
\* tick n with 0.5 * n >= S, so a pending interval is always below the target
\* and the score is written only by a tick; each typewriter chain holds one
\* pending callback, with an index of at most L, and the callback with index
\* L schedules nothing, whatever the other chains do.
C16_TimersTerminate ==
    /\ (~Quiescent) ~> Quiescent
    /\ [](/\ \A t \in intervals :
                /\ t.count < mock.score
                /\ t.count % CountStep = 0
                /\ t.id \in 1..analyses
          /\ \A t, u \in intervals : t.id = u.id => t = u
          /\ \A t \in typeTimers : t.i \in 1..L /\ t.id \in 1..analyses
          /\ \A t, u \in typeTimers : t.id = u.id => t = u
          /\ analysisTimers \subseteq 1..analyses)
    /\ [][/\ \A id \in 1..analyses :
                /\ id \notin analysisTimers => id \notin analysisTimers'
                /\ (id \notin analysisTimers /\ \A t \in intervals : t.id # id) =>
                       (\A t \in intervals' : t.id # id)
                /\ (id \notin analysisTimers /\ \A t \in typeTimers : t.id # id) =>
                       (\A t \in typeTimers' : t.id # id)
          /\ \A t \in intervals :
                t \notin intervals' =>
                   IF t.count + CountStep >= mock.score
                   THEN \A u \in intervals' : u.id # t.id
                   ELSE [ t EXCEPT !.count = t.count + CountStep ] \in intervals'
          /\ scoreText' # scoreText => \E t \in intervals : t \notin intervals'
          /\ \A t \in typeTimers :
                t \notin typeTimers' =>
                   IF t.i = L
                   THEN \A u \in typeTimers' : u.id # t.id
                   ELSE [ t EXCEPT !.i = t.i + 1 ] \in typeTimers'
          /\ explanationText' # explanationText =>
                \/ \E t \in typeTimers : t \notin typeTimers' /\ t.i < L
                \/ analysisTimers' # analysisTimers]_vars

\* two analyses have run, every chain has ended, and the trigger is enabled
C16_Witness ==
    /\ Quiescent
    /\ analyses = 2
    /\ ~analyzeDisabled
    /\ mock.score = 3 * MaxScore
    /\ scoreText = NumberToString(mock.score)


\* C17: overlapping count-ups converge. When animateScore is called on the
\* score element while the interval of an earlier call with the same target
\* S is still ticking, the displayed score may go down in between, but once
\* no interval is left the element shows S exactly, in whatever order the
\* ticks of the two intervals ran.
C17_OverlapConverges ==
    (countUpOverlap /\ intervals = {}) => scoreText = NumberToString(mock.score)

\* two three-tick count-ups overlapped and have both ended
C17_Witness ==
    /\ countUpOverlap
    /\ intervals = {}
    /\ analyses = 2
    /\ mock.score = 3 * MaxScore
    /\ scoreText = NumberToString(3 * MaxScore)

====
